---- MODULE Spec2Model ----
(***************************************************************************)
(* Drone swarm versus defending targets (hobbsc4/ma360_drone_swarm).       *)
(*                                                                         *)
(* The repository holds two generations of the same simulation:            *)
(*   "rebuild"     src/rebuild/...        several targets, model counters, *)
(*                                        SwarmModel.run / run.py main     *)
(*   "drone_swarm" src/drone_swarm/...    one target, running flag,        *)
(*                                        returned counter, weight flip    *)
(* Both are modelled; the variable cfg.variant says which one a behaviour  *)
(* runs.  One action is one agent activation (Drone.step / Target.step) or *)
(* one step of the run loop.                                               *)
(*                                                                         *)
(* Numbers.  Positions, velocities and accelerations are numpy floats in   *)
(* the source.  Here they live on the integer lattice: every operation is  *)
(* the real operation followed by truncation toward zero, and the value    *)
(* numpy produces for inf * 0 (nan) is the scalar NaN below, propagated    *)
(* the way IEEE arithmetic propagates it (every comparison with it is      *)
(* false).  Angles are whole degrees.  Probabilities are multiples of      *)
(* 1 / ProbDen.                                                            *)
(***************************************************************************)
EXTENDS Integers, Sequences, FiniteSets, TLC

(***************************************************************************)
(* Bounds of the model.                                                    *)
(***************************************************************************)
MaxDrones == 2
MaxTargets == 2
ProbDen == 4
TickSlack == 1

\* the tick limit of the rebuild's main loop (400 in run.py), scaled down
MAX_TICKS == 3

(***************************************************************************)
(* Program constants.                                                      *)
(***************************************************************************)
dt == 1
DRONE_VALUE == 5000
TARGET_VALUE == 1000000
\* the drone diameter the model is given (1 m, in half metres)
DRONE_DIAMETER == 2

(***************************************************************************)
(* Scalars with nan.                                                       *)
(***************************************************************************)
NaN == -1000000

IsNaN(a) == a = NaN

Abs(a) == IF a < 0 THEN -a ELSE a

Sign(a) == IF a < 0 THEN -1 ELSE IF a > 0 THEN 1 ELSE 0

\* real division followed by truncation toward zero (b # 0)
TruncDiv(a, b) == Sign(a) * Sign(b) * (Abs(a) \div Abs(b))

fAdd(a, b) == IF IsNaN(a) \/ IsNaN(b) THEN NaN ELSE a + b

fSub(a, b) == IF IsNaN(a) \/ IsNaN(b) THEN NaN ELSE a - b

fMul(a, b) == IF IsNaN(a) \/ IsNaN(b) THEN NaN ELSE a * b

\* a / b for a finite divisor b # 0
fDiv(a, b) == IF IsNaN(a) \/ IsNaN(b) THEN NaN ELSE TruncDiv(a, b)

\* IEEE comparisons: false as soon as one side is nan
fLT(a, b) == ~IsNaN(a) /\ ~IsNaN(b) /\ a < b

fGT(a, b) == ~IsNaN(a) /\ ~IsNaN(b) /\ a > b

fGE(a, b) == ~IsNaN(a) /\ ~IsNaN(b) /\ a >= b

(***************************************************************************)
(* Vectors: <<x, y>>.                                                      *)
(***************************************************************************)
Zero2 == <<0, 0>>

HasNaN(v) == IsNaN(v[1]) \/ IsNaN(v[2])

vAdd(u, v) == <<fAdd(u[1], v[1]), fAdd(u[2], v[2])>>

vSub(u, v) == <<fSub(u[1], v[1]), fSub(u[2], v[2])>>

vScale(k, v) == <<fMul(k, v[1]), fMul(k, v[2])>>

vDiv(v, k) == <<fDiv(v[1], k), fDiv(v[2], k)>>

\* |v|^2 of a finite vector
Norm2(v) == v[1] * v[1] + v[2] * v[2]

\* np.linalg.norm(v) > m, both sides squared
NormGT(v, m) == ~HasNaN(v) /\ Norm2(v) > m * m

\* v * (m / |v|) for a finite v # 0: the vector of length m along v
Rescale(v, m) ==
    LET n2 == Norm2(v)
        c(a) == Sign(a) * (CHOOSE k \in 0..m : /\ k * k * n2 <= a * a * m * m
                                                /\ (k + 1) * (k + 1) * n2 > a * a * m * m)
    IN <<c(v[1]), c(v[2])>>

\* "if norm(v) > m: v *= m / norm(v)"; a nan norm compares false
Clamp(v, m) == IF NormGT(v, m) THEN Rescale(v, m) ELSE v

(***************************************************************************)
(* Angles in whole degrees.  TanTab[k + 1] = 1000 * tan(k degrees).        *)
(***************************************************************************)
TanTab ==
    << 0, 18, 35, 53, 70, 88, 106, 123, 141, 159,
       177, 195, 213, 231, 250, 268, 287, 306, 325, 345,
       364, 384, 405, 425, 446, 467, 488, 510, 532, 555,
       578, 601, 625, 650, 675, 701, 727, 754, 782, 810,
       840, 870, 901, 933, 966, 1000, 1036, 1073, 1111, 1151,
       1192, 1235, 1280, 1328, 1377, 1429, 1483, 1540, 1601, 1665,
       1733, 1805, 1881, 1963, 2051, 2145, 2247, 2356, 2476, 2606,
       2748, 2905, 3078, 3271, 3488, 3733, 4011, 4332, 4705, 5145,
       5672, 6314, 7116, 8145, 9515, 11431, 14301, 19082, 28637, 57290 >>

\* arctan(dy / dx) in 0..90 for dx, dy >= 0, not both 0
AtanQ1(dy, dx) ==
    IF dx = 0 THEN 90
    ELSE CHOOSE k \in 0..89 :
           /\ TanTab[k + 1] * dx <= 1000 * dy
           /\ (k = 89 \/ TanTab[k + 2] * dx > 1000 * dy)

\* np.arctan2(dy, dx) in -179..180
Atan2Deg(dy, dx) ==
    LET a == AtanQ1(Abs(dy), Abs(dx))
        b == IF dx >= 0 THEN a ELSE 180 - a
    IN IF dy < 0 THEN -b ELSE b

(***************************************************************************)
(* State.                                                                  *)
(*   cfg     the construction parameters (never change)                    *)
(*   drone   [id -> Drone]: pos, velocity, acceleration, state, weights,   *)
(*           scheduled (still in the schedule and the domain), shots (the  *)
(*           number of get_hit calls it has made)                          *)
(*   target  [id -> Target]: state, direction, time_until_fire, kills,     *)
(*           hits (the number of times get_hit marked it dead), idle (its  *)
(*           activations since its construction or its latest kill)        *)
(*   model   the SwarmModel counters and flags                             *)
(*   todo    the agents the scheduler has yet to activate in this tick     *)
(*   pc      "loop": at a tick boundary, "tick": inside schedule.step(),   *)
(*           "done": the run loop has been left                            *)
(*   last    what the latest activation did                                *)
(***************************************************************************)
VARIABLES cfg, drone, target, model, todo, pc, last

vars == <<cfg, drone, target, model, todo, pc, last>>

Rebuild == cfg.variant = "rebuild"

Swarm == cfg.variant = "drone_swarm"

Drones == 1..cfg.num_drones

Targets == 1..cfg.num_targets

DroneAgent(i) == <<"drone", i>>

TargetAgent(j) == <<"target", j>>

\* the target positions set at construction; targets never move
TargetPos(j) ==
    IF Rebuild
    THEN <<(cfg.width * j) \div (cfg.num_targets + 1), cfg.height \div 10>>
    ELSE <<cfg.width \div 2, cfg.height \div 2>>

(***************************************************************************)
(* mesa.space.ContinuousSpace(torus=True), as the source calls it.         *)
(***************************************************************************)
OutOfBounds(p) ==
    \/ fLT(p[1], 0)
    \/ fGE(p[1], cfg.width)
    \/ fLT(p[2], 0)
    \/ fGE(p[2], cfg.height)

fMod(a, m) == IF IsNaN(a) THEN NaN ELSE a % m

\* torus_adj, applied by place_agent and move_agent
TorusAdj(p) ==
    IF OutOfBounds(p) THEN <<fMod(p[1], cfg.width), fMod(p[2], cfg.height)>> ELSE p

Min(a, b) == IF a <= b THEN a ELSE b

\* get_neighbors(pos, radius, False): torus distance <= radius, distance 0 left out
Within(p, q, radius) ==
    /\ ~HasNaN(p)
    /\ ~HasNaN(q)
    /\ LET dx == Min(Abs(p[1] - q[1]), cfg.width - Abs(p[1] - q[1]))
           dy == Min(Abs(p[2] - q[2]), cfg.height - Abs(p[2] - q[2]))
       IN /\ dx * dx + dy * dy <= radius * radius
          /\ dx * dx + dy * dy > 0

\* the drones among get_neighbors(p, radius, False), D the drones' records
NeighborDrones(D, p, radius) ==
    {k \in DOMAIN D : D[k].scheduled /\ Within(p, D[k].pos, radius)}

\* the targets among get_neighbors(p, radius, False); a dead target stays in the domain
NeighborTargets(p, radius) == {j \in Targets : Within(p, TargetPos(j), radius)}

\* np.linalg.norm(q - p) squared, p and q finite
Dist2(p, q) == Norm2(vSub(q, p))

\* min(distances), then distances.index(min): the first of the nearest, in id
\* order; P maps an id to its position; 0 stands for None
Nearest(S, p, P) ==
    IF S = {} THEN 0
    ELSE CHOOSE k \in S :
           \A m \in S : \/ Dist2(p, P[k]) < Dist2(p, P[m])
                        \/ (Dist2(p, P[k]) = Dist2(p, P[m]) /\ k <= m)

DronePositions(D) == [k \in DOMAIN D |-> D[k].pos]

TargetPositions == [j \in Targets |-> TargetPos(j)]

RECURSIVE SumVec(_, _)
\* the sum of F[k] over k in S
SumVec(S, F) ==
    IF S = {} THEN Zero2
    ELSE LET k == CHOOSE x \in S : TRUE
         IN vAdd(F[k], SumVec(S \ {k}, F))

(***************************************************************************)
(* Steering (steering.py): boids, avoid_edges, seek_target.                *)
(***************************************************************************)
\* the length the per-neighbour unit vectors are kept at
UnitScale == 64

\* v * (m / norm(v)): nan all over when the norm is nan or 0 * inf
ScaleToNorm(v, m) ==
    IF HasNaN(v) \/ Norm2(v) = 0 THEN <<NaN, NaN>> ELSE Rescale(v, m)

\* boids(drone): <<alignment, cohesion, separation>> for drone i
boids(D, i) ==
    LET me == D[i]
        N == NeighborDrones(D, me.pos, cfg.drone_vis_radius)
        n == Cardinality(N)
        velSum == SumVec(N, [k \in N |-> D[k].velocity])
        posSum == SumVec(N, [k \in N |-> D[k].pos])
        unitSum == SumVec(N, [k \in N |-> Rescale(vSub(me.pos, D[k].pos), UnitScale)])
        comDir == vSub(posSum, vScale(n, me.pos))
        desiredCom == IF Norm2(comDir) > 0 THEN Rescale(comDir, cfg.max_velocity) ELSE Zero2
        desiredSep == IF Norm2(unitSum) > 0 THEN Rescale(unitSum, cfg.max_velocity) ELSE Zero2
    IN IF n > 0 /\ (HasNaN(velSum) \/ Norm2(velSum) # 0)
       THEN << vSub(ScaleToNorm(velSum, cfg.max_velocity), me.velocity),
               vSub(desiredCom, me.velocity),
               vSub(desiredSep, me.velocity) >>
       ELSE <<Zero2, Zero2, Zero2>>

\* one axis of avoid_edges: <<numerator, denominator, influences>> of the desired
\* velocity along the axis; denominator 0 stands for 1 / 0 = inf.  x: the
\* coordinate, size: the extent subtracted from, low / high: the two tests
EdgeAxis(x, size, low, high) ==
    LET a == IF low THEN <<1, x>> ELSE <<0, 1>>
        b == IF high THEN <<1, size - x>> ELSE <<0, 1>>
    IN IF a[2] = 0 \/ b[2] = 0
       THEN <<1, 0, (IF low THEN 1 ELSE 0) + (IF high THEN 1 ELSE 0)>>
       ELSE << a[1] * b[2] - b[1] * a[2], a[2] * b[2],
               (IF low THEN 1 ELSE 0) + (IF high THEN 1 ELSE 0) >>

\* avoid_edges(drone)
avoid_edges(D, i) ==
    LET me == D[i]
        x == me.pos[1]
        y == me.pos[2]
        vis == cfg.drone_vis_radius
        left == fLT(x, vis) /\ fLT(fMul(40, x), 3 * cfg.width)
        right == /\ fGT(x, cfg.width - vis)
                 /\ fGT(fMul(40, x), 40 * cfg.width - 3 * cfg.width)
        bottom == fLT(y, vis) /\ fLT(fMul(40, y), 3 * cfg.height)
        top == /\ fGT(y, cfg.height - vis)
               /\ fGT(fMul(40, y), 40 * cfg.width - 3 * cfg.height)
        ax == EdgeAxis(x, cfg.width, left, right)
        ay == EdgeAxis(y, cfg.height, bottom, top)
        influences == ax[3] + ay[3]
        desired ==
            IF ax[2] = 0 \/ ay[2] = 0
            THEN <<IF ax[2] = 0 THEN NaN ELSE 0, IF ay[2] = 0 THEN NaN ELSE 0>>
            ELSE ScaleToNorm(<<ax[1] * ay[2], ay[1] * ax[2]>>, cfg.max_velocity)
    IN IF influences > 0 THEN vSub(desired, me.velocity) ELSE Zero2

\* Drone.get_nearest_target (rebuild): the nearest living target in sight, or 0
get_nearest_target(D, i) ==
    LET seen == NeighborTargets(D[i].pos, cfg.drone_vis_radius)
        living == {j \in seen : target[j].state # "dead"}
    IN Nearest(living, D[i].pos, TargetPositions)

\* seek_target(drone), rebuild: toward get_nearest_target()
seek_target_rebuild(D, i) ==
    LET j == get_nearest_target(D, i)
    IN IF j = 0 THEN Zero2
       ELSE vSub(ScaleToNorm(vSub(TargetPos(j), D[i].pos), cfg.max_velocity),
                 D[i].velocity)

\* seek_target(drone), drone_swarm: toward the model's one target, dead or not
\* (schedule.agents[model.target_id], the agent the model keeps as model.target)
seek_target_swarm(D, i) ==
    LET direction == vSub(TargetPos(1), D[i].pos)
    IN IF NormGT(direction, cfg.drone_vis_radius) THEN Zero2
       ELSE vSub(ScaleToNorm(direction, cfg.max_velocity), D[i].velocity)

seek_target(D, i) == IF Rebuild THEN seek_target_rebuild(D, i) ELSE seek_target_swarm(D, i)

\* the weighted sum of the five steering vectors
WeightedSum(w, s) ==
    vAdd(vAdd(vAdd(vAdd(vScale(w[1], s[1]), vScale(w[2], s[2])), vScale(w[3], s[3])),
              vScale(w[4], s[4])), vScale(w[5], s[5]))

\* Drone.update_acceleration: the new acceleration of drone i
update_acceleration(D, i) ==
    LET b == boids(D, i)
        s == <<b[1], b[2], b[3], avoid_edges(D, i), seek_target(D, i)>>
        w == D[i].weights
        wsum == w[1] + w[2] + w[3] + w[4] + w[5]
    IN Clamp(vDiv(WeightedSum(w, s), wsum), cfg.max_acceleration)

\* Drone.update_velocity: the new velocity from the new acceleration
update_velocity(v, a) == Clamp(vAdd(v, vScale(dt, a)), cfg.max_velocity)

(***************************************************************************)
(* SwarmModel of drone_swarm: get_num_drones, get_num_targets, get_cost,   *)
(* end.                                                                    *)
(***************************************************************************)
\* get_num_drones counting every drone ever created
get_num_drones_created(D) == Cardinality(DOMAIN D)

\* the agents of the schedule that are not a Target
get_num_drones(D) == Cardinality({k \in DOMAIN D : D[k].scheduled})

\* the agents of the schedule that are a Target; a target is never removed
get_num_targets == cfg.num_targets

get_cost(D) ==
    (cfg.num_drones - get_num_drones(D)) * DRONE_VALUE
    - (cfg.num_targets - get_num_targets) * TARGET_VALUE

\* SwarmModel.end: running = False and the printed summary
end(M, D) == [M EXCEPT !.running = FALSE, !.reports = @ + 1, !.cost = get_cost(D)]

(***************************************************************************)
(* Drone (rebuild/entity_classes/drone.py and the drone_swarm drone).      *)
(***************************************************************************)
NoActivation == [agent |-> <<"none", 0>>, killed |-> 0, shot |-> 0, hit |-> FALSE,
                 returned |-> FALSE]

\* the uniform draws of np.random.rand(), in units of 1 / ProbDen
Draws == 0..(ProbDen - 1)

\* Target.get_hit, rebuild: random_number <= probability, both in 1 / ProbDen
HitRebuild(r, accuracy) == r <= accuracy

\* Drone.fire + Target.get_hit, drone_swarm: random_number <= probability with
\* probability = max_accuracy * (1 - distance / weapon_range); d2 = distance^2
HitSwarm(r, accuracy, d2, range) ==
    /\ accuracy - r >= 0
    /\ accuracy * accuracy * d2 <= (accuracy - r) * (accuracy - r) * range * range

\* die without domain.remove_agent and schedule.remove
DieDrone_stays(D, k) == D

\* Drone.die, the drone's side: out of the domain and the schedule
DieDrone(D, k) == [D EXCEPT ![k].scheduled = FALSE]

\* die without "if not self.state == retreating": the armed counter is always
\* decremented
DieModel_unconditional(M, wasArmed) ==
    IF Rebuild
    THEN [M EXCEPT !.current_num_drones = @ - 1,
                   !.current_num_armed_drones = @ - 1,
                   !.current_id = @ - 1]
    ELSE [M EXCEPT !.current_id = @ - 1]

\* Drone.die, the model's side (rebuild counts, drone_swarm only current_id)
DieModel(M, wasArmed) ==
    IF Rebuild
    THEN [M EXCEPT !.current_num_drones = @ - 1,
                   !.current_num_armed_drones = IF wasArmed THEN @ - 1 ELSE @,
                   !.current_id = @ - 1]
    ELSE [M EXCEPT !.current_id = @ - 1]

\* fire without its first line "if self.state == retreating: return"
fire_rebuild_rearmed(D, i) ==
    LET j == get_nearest_target(D, i)
    IN IF j = 0 THEN 0
       ELSE IF Dist2(D[i].pos, TargetPos(j)) > cfg.drone_weapon_radius * cfg.drone_weapon_radius
            THEN 0
       ELSE j

\* fire with "if target_distance >= self.weapon_radius: return"
fire_rebuild_short(D, i) ==
    LET j == get_nearest_target(D, i)
    IN IF D[i].state = "retreating" THEN 0
       ELSE IF j = 0 THEN 0
       ELSE IF Dist2(D[i].pos, TargetPos(j)) >= cfg.drone_weapon_radius * cfg.drone_weapon_radius
            THEN 0
       ELSE j

\* Drone.fire of the rebuild up to get_hit: the target shot at, or 0
fire_rebuild(D, i) ==
    LET j == get_nearest_target(D, i)
    IN IF D[i].state = "retreating" THEN 0
       ELSE IF j = 0 THEN 0
       ELSE IF Dist2(D[i].pos, TargetPos(j)) > cfg.drone_weapon_radius * cfg.drone_weapon_radius
            THEN 0
       ELSE j

\* Drone.fire of drone_swarm up to get_hit: model.target (1) when shot at, or 0
fire_swarm(D, i) ==
    IF D[i].state = "retreating" THEN 0
    ELSE IF NormGT(vSub(TargetPos(1), D[i].pos), cfg.drone_weapon_radius) THEN 0
    ELSE 1

\* Drone.step of the rebuild: update_position, update_acceleration,
\* update_velocity, fire
DroneStepRebuild(i) ==
    /\ Rebuild
    /\ pc = "tick"
    /\ DroneAgent(i) \in todo
    /\ \E p1 \in {TorusAdj(vAdd(drone[i].pos, vScale(dt, drone[i].velocity)))} :
       \E a1 \in {update_acceleration([drone EXCEPT ![i].pos = p1], i)} :
       \E v1 \in {update_velocity(drone[i].velocity, a1)} :
       \E D2 \in {[drone EXCEPT ![i].pos = p1, ![i].acceleration = a1, ![i].velocity = v1]} :
       \E j \in {fire_rebuild(D2, i)} :
       LET fires == j # 0
       IN \E r \in Draws :
            LET hit == fires /\ HitRebuild(r, cfg.accuracy)
            IN /\ drone' = IF fires
                           THEN [D2 EXCEPT ![i].state = "retreating", ![i].shots = @ + 1]
                           ELSE D2
               /\ target' = IF hit
                            THEN [target EXCEPT ![j].state = "dead", ![j].hits = @ + 1]
                            ELSE target
               /\ model' = [model EXCEPT
                              !.current_num_targets = IF hit THEN @ - 1 ELSE @,
                              !.current_num_armed_drones = IF fires THEN @ - 1 ELSE @]
               /\ last' = [NoActivation EXCEPT !.agent = DroneAgent(i),
                                                !.shot = IF fires THEN j ELSE 0,
                                                !.hit = hit]
    /\ todo' = todo \ {DroneAgent(i)}
    /\ UNCHANGED <<cfg, pc>>

\* Drone.step of drone_swarm: update_position may set "returned", then die();
\* otherwise update_acceleration, update_velocity, fire
DroneStepSwarm(i) ==
    /\ Swarm
    /\ pc = "tick"
    /\ DroneAgent(i) \in todo
    /\ \E next \in {vAdd(drone[i].pos, vScale(dt, drone[i].velocity))} :
       \E p1 \in {TorusAdj(next)} :
       \E a1 \in {update_acceleration([drone EXCEPT ![i].pos = p1], i)} :
       \E v1 \in {update_velocity(drone[i].velocity, a1)} :
       \E D2 \in {[drone EXCEPT ![i].pos = p1, ![i].acceleration = a1, ![i].velocity = v1]} :
       LET outside == \/ fGT(next[1], cfg.width)
                      \/ fLT(next[1], 0)
                      \/ fGT(next[2], cfg.height)
                      \/ fLT(next[2], 0)
           dir == vSub(TargetPos(1), p1)
           fires == fire_swarm(D2, i) # 0
       IN \E r \in Draws :
            LET hit == /\ fires
                       /\ ~HasNaN(dir)
                       /\ HitSwarm(r, cfg.accuracy, Norm2(dir), cfg.drone_weapon_radius)
            IN IF outside
               THEN /\ drone' = DieDrone([drone EXCEPT ![i].state = "returned"], i)
                    /\ model' = [DieModel(model, FALSE) EXCEPT !.n_drones_returned = @ + 1]
                    /\ target' = target
                    /\ last' = [NoActivation EXCEPT !.agent = DroneAgent(i),
                                                     !.returned = TRUE]
               ELSE /\ drone' = IF fires
                                THEN [D2 EXCEPT ![i].state = "retreating",
                                                ![i].shots = @ + 1,
                                                ![i].weights[4] = -@,
                                                ![i].weights[5] = -@]
                                ELSE D2
                    /\ target' = IF hit
                                 THEN [target EXCEPT ![1].state = "dead", ![1].hits = @ + 1]
                                 ELSE target
                    /\ model' = IF hit THEN end(model, D2) ELSE model
                    /\ last' = [NoActivation EXCEPT !.agent = DroneAgent(i),
                                                     !.shot = IF fires THEN 1 ELSE 0,
                                                     !.hit = hit]
    /\ todo' = todo \ {DroneAgent(i)}
    /\ UNCHANGED <<cfg, pc>>

(***************************************************************************)
(* Target (target.py of drone_swarm, target-checkpoint.py of the rebuild). *)
(***************************************************************************)
\* get_nearest_drone over every drone of the schedule, in sight or not
get_nearest_drone_any(D, j) ==
    Nearest({k \in DOMAIN D : D[k].scheduled /\ ~HasNaN(D[k].pos)}, TargetPos(j),
            DronePositions(D))

\* get_nearest_drone / get_nearest_neighbor: the nearest drone in sight, or 0
get_nearest_drone(D, j) ==
    Nearest(NeighborDrones(D, TargetPos(j), cfg.target_vis_radius), TargetPos(j),
            DronePositions(D))

\* np.arctan2(yn - ys, xn - xs) from target j to drone k
Bearing(D, j, k) ==
    Atan2Deg(D[k].pos[2] - TargetPos(j)[2], D[k].pos[1] - TargetPos(j)[1])

\* Target.move: the new direction
move(D, T, j) ==
    LET k == get_nearest_drone(D, j)
        neighbor_angle == Bearing(D, j, k)
        theta_diff == neighbor_angle - T[j].direction
    IN IF Rebuild /\ T[j].state = "dead" THEN T[j].direction
       ELSE IF k = 0 THEN T[j].direction
       ELSE IF theta_diff <= cfg.omega_max * dt THEN neighbor_angle
       ELSE T[j].direction + cfg.omega_max * dt

\* the widest |bearing - direction| the weapon reaches, in 1/1000 degree:
\* weapon_angular_range / 2 in drone_swarm, 1e-2 rad (0.573 degrees) in the rebuild
HalfAngularRange == IF Rebuild THEN 573 ELSE 500 * cfg.weapon_angular_range

\* the angular test with the rebuild's fixed 1e-2 rad in place of
\* weapon_angular_range / 2
Aimed_fixed(angle, direction) == ~(1000 * Abs(angle - direction) > 573)

\* not "np.abs(angle - self.direction) > ...": the weapon points at the drone
Aimed(angle, direction) == ~(1000 * Abs(angle - direction) > HalfAngularRange)

\* fire without "if distance > self.weapon_range: return"
fire_victim_any_range(D, j, direction) ==
    LET k == get_nearest_drone(D, j)
    IN IF k = 0 THEN 0
       ELSE IF ~Aimed(Bearing(D, j, k), direction) THEN 0
       ELSE k

\* Target.fire past the cooldown test: the drone it kills, or 0
fire_victim(D, j, direction) ==
    LET k == get_nearest_drone(D, j)
    IN IF k = 0 THEN 0
       ELSE IF Dist2(TargetPos(j), D[k].pos) > cfg.target_weapon_range * cfg.target_weapon_range
            THEN 0
       ELSE IF ~Aimed(Bearing(D, j, k), direction) THEN 0
       ELSE k

\* fire without "if self.time_until_fire > 0: ... return"
cooling_skipped(T, j) == FALSE

\* Target.fire, its first test: the weapon is still cooling down
cooling(T, j) == T[j].time_until_fire > 0

\* Target.step: move, then fire
TargetStep(j) ==
    /\ pc = "tick"
    /\ TargetAgent(j) \in todo
    /\ \E d1 \in {move(drone, target, j)} :
       \E k \in {IF cooling(target, j) THEN 0 ELSE fire_victim(drone, j, d1)} :
          /\ target' = [target EXCEPT
                          ![j].direction = d1,
                          ![j].time_until_fire =
                              IF cooling(target, j) THEN @ - dt
                              ELSE IF k # 0 THEN cfg.fire_cooldown ELSE @,
                          ![j].kills = IF k # 0 THEN @ + 1 ELSE @,
                          ![j].idle = IF k # 0 THEN 0 ELSE @ + 1]
          /\ drone' = IF k # 0 THEN DieDrone(drone, k) ELSE drone
          /\ model' = IF k # 0 THEN DieModel(model, drone[k].state # "retreating") ELSE model
          /\ todo' = (todo \ {TargetAgent(j)}) \ (IF k # 0 THEN {DroneAgent(k)} ELSE {})
          /\ last' = [NoActivation EXCEPT !.agent = TargetAgent(j), !.killed = k]
    /\ UNCHANGED <<cfg, pc>>

(***************************************************************************)
(* The run loops: SwarmModel.run and run.py main of the rebuild,           *)
(* run.py main + SwarmModel.step of drone_swarm.                           *)
(***************************************************************************)
\* schedule.agents: the drones not yet removed, and every target
ScheduledAgents ==
    {DroneAgent(i) : i \in {k \in Drones : drone[k].scheduled}}
      \cup {TargetAgent(j) : j \in Targets}

\* the while condition shared by SwarmModel.run and the rebuild's main
LoopCondition ==
    /\ model.current_num_drones > 0
    /\ model.current_num_targets > 0
    /\ model.current_num_armed_drones > 0

\* a loop without a tick limit is followed for TickSlack ticks past MAX_TICKS
WithinModelBound == model.time < MAX_TICKS + TickSlack

\* SwarmModel.run: one more pass of "while ...: self.step()"
RunTick ==
    /\ Rebuild /\ cfg.loop = "run"
    /\ pc = "loop"
    /\ LoopCondition
    /\ WithinModelBound
    /\ pc' = "tick"
    /\ todo' = ScheduledAgents
    /\ last' = NoActivation
    /\ UNCHANGED <<cfg, drone, target, model>>

\* SwarmModel.run: the loop is left and the utility returned
RunReturn ==
    /\ Rebuild /\ cfg.loop = "run"
    /\ pc = "loop"
    /\ ~LoopCondition
    /\ pc' = "done"
    /\ model' = [model EXCEPT
                   !.utility = (cfg.num_targets - model.current_num_targets) * TARGET_VALUE
                               - (cfg.num_drones - model.current_num_drones) * DRONE_VALUE,
                   !.reports = @ + 1]
    /\ last' = NoActivation
    /\ UNCHANGED <<cfg, drone, target, todo>>

\* rebuild/run.py main: the same condition and schedule.time < 400
MainTick ==
    /\ Rebuild /\ cfg.loop = "main"
    /\ pc = "loop"
    /\ LoopCondition /\ model.time < MAX_TICKS
    /\ pc' = "tick"
    /\ todo' = ScheduledAgents
    /\ last' = NoActivation
    /\ UNCHANGED <<cfg, drone, target, model>>

MainExit ==
    /\ Rebuild /\ cfg.loop = "main"
    /\ pc = "loop"
    /\ ~(LoopCondition /\ model.time < MAX_TICKS)
    /\ pc' = "done"
    /\ last' = NoActivation
    /\ UNCHANGED <<cfg, drone, target, model, todo>>

\* drone_swarm: "while model.running: model.step()", the branch schedule.step()
SwarmTick ==
    /\ Swarm
    /\ pc = "loop"
    /\ model.running
    /\ get_num_drones(drone) > 0 /\ get_num_targets > 0
    /\ WithinModelBound
    /\ pc' = "tick"
    /\ todo' = ScheduledAgents
    /\ last' = NoActivation
    /\ UNCHANGED <<cfg, drone, target, model>>

\* drone_swarm: model.step() with no drone (or no target) left calls end()
SwarmStepEnd ==
    /\ Swarm
    /\ pc = "loop"
    /\ model.running
    /\ ~(get_num_drones(drone) > 0 /\ get_num_targets > 0)
    /\ model' = end(model, drone)
    /\ last' = NoActivation
    /\ UNCHANGED <<cfg, drone, target, todo, pc>>

\* drone_swarm: running is False, the while loop is left
SwarmExit ==
    /\ Swarm
    /\ pc = "loop"
    /\ ~model.running
    /\ pc' = "done"
    /\ last' = NoActivation
    /\ UNCHANGED <<cfg, drone, target, model, todo>>

\* schedule.step() has activated every agent: steps and time advance
EndTick ==
    /\ pc = "tick"
    /\ todo = {}
    /\ pc' = "loop"
    /\ model' = [model EXCEPT !.time = @ + 1]
    /\ last' = NoActivation
    /\ UNCHANGED <<cfg, drone, target, todo>>

(***************************************************************************)
(* Construction (SwarmModel.__init__, Drone.__init__, Target.__init__).    *)
(* Lengths are in lattice units; in the drone_swarm configurations one     *)
(* unit is half a metre, so that rand(2) - .5 has the lattice values       *)
(* -1 and 0.  omega_max and weapon_angular_range are in degrees.           *)
(***************************************************************************)
BaseRebuild ==
    [variant |-> "rebuild", loop |-> "run", width |-> 48, height |-> 40,
     num_drones |-> 2, num_targets |-> 1,
     target_vis_radius |-> 48, target_weapon_range |-> 24,
     drone_vis_radius |-> 24, drone_weapon_radius |-> 15,
     accuracy |-> ProbDen \div 2, max_velocity |-> 6, max_acceleration |-> 4,
     weapon_angular_range |-> 0, fire_cooldown |-> 1, omega_max |-> 2578]

BaseSwarm ==
    [variant |-> "drone_swarm", loop |-> "main", width |-> 48, height |-> 40,
     num_drones |-> 2, num_targets |-> 1,
     target_vis_radius |-> 48, target_weapon_range |-> 24,
     drone_vis_radius |-> 24, drone_weapon_radius |-> 16,
     accuracy |-> ProbDen \div 2, max_velocity |-> 6, max_acceleration |-> 4,
     weapon_angular_range |-> 10, fire_cooldown |-> 1, omega_max |-> 45]

ConfigsRebuild ==
    { BaseRebuild,
      [BaseRebuild EXCEPT !.loop = "main"],
      [BaseRebuild EXCEPT !.num_targets = MaxTargets],
      [BaseRebuild EXCEPT !.num_drones = 1],
      [BaseRebuild EXCEPT !.num_drones = MaxDrones],
      [BaseRebuild EXCEPT !.target_vis_radius = 12],
      [BaseRebuild EXCEPT !.drone_vis_radius = 3],
      [BaseRebuild EXCEPT !.accuracy = 0],
      [BaseRebuild EXCEPT !.accuracy = ProbDen],
      [BaseRebuild EXCEPT !.fire_cooldown = 2],
      [BaseRebuild EXCEPT !.drone_vis_radius = 0, !.target_vis_radius = 0],
      [BaseRebuild EXCEPT !.num_drones = 1, !.drone_vis_radius = 0,
                          !.fire_cooldown = 3],
      [BaseRebuild EXCEPT !.num_drones = 1, !.drone_vis_radius = 3,
                          !.target_vis_radius = 12, !.max_velocity = 9] }

\* a domain width just below what two drones need
NarrowWidth == 2 * DRONE_DIAMETER - 1

\* the constructor's test of the domain against the drones' footprint:
\* domain_width / n_drones < drone_diameter or
\* domain_height / n_drones < drone_diameter
DomainTooSmall(c) ==
    \/ c.width < DRONE_DIAMETER * c.num_drones
    \/ c.height < DRONE_DIAMETER * c.num_drones

ConfigsSwarm ==
    { BaseSwarm,
      [BaseSwarm EXCEPT !.num_drones = 1],
      [BaseSwarm EXCEPT !.num_drones = MaxDrones],
      [BaseSwarm EXCEPT !.target_vis_radius = 12],
      [BaseSwarm EXCEPT !.accuracy = ProbDen],
      [BaseSwarm EXCEPT !.max_acceleration = 1],
      [BaseSwarm EXCEPT !.fire_cooldown = 0],
      [BaseSwarm EXCEPT !.weapon_angular_range = 360],
      [BaseSwarm EXCEPT !.num_drones = 1, !.accuracy = 0],
      [BaseSwarm EXCEPT !.num_drones = 1, !.weapon_angular_range = 360],
      [BaseSwarm EXCEPT !.num_drones = 1, !.weapon_angular_range = 360,
                        !.fire_cooldown = 0],
      [BaseSwarm EXCEPT !.drone_vis_radius = 0, !.target_vis_radius = 0],
      [BaseSwarm EXCEPT !.width = NarrowWidth] }

Configs == ConfigsRebuild \cup ConfigsSwarm

\* where drone i may be placed: rebuild x in [.3 w, .7 w], y in [5/8 h, 7/8 h];
\* drone_swarm x in [w / 4, 3 w / 4), y in [7/8 h, h)
InitPositions(c, i) ==
    IF c.variant = "rebuild"
    THEN IF i = 1 THEN {<<24, 25>>, <<18, 30>>, <<15, 30>>} ELSE {<<28, 26>>}
    ELSE IF c.width = NarrowWidth
         THEN IF i = 1 THEN {<<1, 35>>} ELSE {<<2, 36>>}
    ELSE IF i = 1 THEN {<<24, 35>>, <<30, 39>>} ELSE {<<20, 36>>}

\* the initial velocity and acceleration of a drone: rebuild max * (cos, sin) of
\* a heading in [-pi, 0); drone_swarm (rand(2) - .5) * max_velocity and rand(2) - .5
InitKinematics(c, i) ==
    IF c.variant = "rebuild"
    THEN { [velocity |-> Rescale(h, c.max_velocity),
            acceleration |-> Rescale(h, c.max_acceleration)]
           : h \in IF i = 1 THEN {<<0, -1>>, <<-1, -1>>} ELSE {<<-1, 0>>} }
    ELSE { [velocity |-> v, acceleration |-> a]
           : v \in IF i = 1 THEN {<<0, -3>>, <<2, 2>>} ELSE {<<-3, 0>>},
             a \in IF i = 1 THEN {<<0, 0>>, <<-1, -1>>} ELSE {<<0, 0>>} }

\* steering weights whose edge-avoidance and target-seeking entries outweigh
\* the other three
InitWeights_heavy(c) ==
    IF c.variant = "rebuild" THEN <<1, 1, 1, 2, 2>> ELSE <<20, 14, 21, 30, 30>>

\* the steering weights: rebuild 1, 1, 1, 1, 1; drone_swarm 1, .7, 1.05, 1.2, 1
\* in twentieths
InitWeights(c) ==
    IF c.variant = "rebuild" THEN <<1, 1, 1, 1, 1>> ELSE <<20, 14, 21, 24, 20>>

\* np.random.uniform(0, 2 pi), some of its values
InitDirections == {0, 90, 270}

\* Drone.__init__ and its placement: the records drone i may start as
InitDrone(c, i) ==
    { [pos |-> p, velocity |-> k.velocity, acceleration |-> k.acceleration,
       state |-> "flocking", weights |-> InitWeights(c), scheduled |-> TRUE,
       shots |-> 0] : p \in InitPositions(c, i), k \in InitKinematics(c, i) }

\* Target.__init__
InitTarget(c) ==
    { [state |-> "alive", direction |-> d, time_until_fire |-> c.fire_cooldown,
       kills |-> 0, hits |-> 0, idle |-> 0] : d \in InitDirections }

RECURSIVE InitDrones(_, _)
\* the drones 1..n as a sequence of records
InitDrones(c, n) ==
    IF n = 0 THEN {<<>>}
    ELSE {Append(f, r) : f \in InitDrones(c, n - 1), r \in InitDrone(c, n)}

RECURSIVE InitTargets(_, _)
InitTargets(c, n) ==
    IF n = 0 THEN {<<>>}
    ELSE {Append(f, r) : f \in InitTargets(c, n - 1), r \in InitTarget(c)}

Init ==
    /\ cfg \in Configs
    /\ drone \in InitDrones(cfg, cfg.num_drones)
    /\ target \in InitTargets(cfg, cfg.num_targets)
    /\ model = [current_num_drones |-> cfg.num_drones,
                current_num_armed_drones |-> cfg.num_drones,
                current_num_targets |-> cfg.num_targets,
                current_id |-> cfg.num_drones + cfg.num_targets,
                running |-> TRUE, n_drones_returned |-> 0,
                reports |-> 0, cost |-> 0, utility |-> 0, time |-> 0]
    /\ todo = {}
    /\ pc = "loop"
    /\ last = NoActivation

Next ==
    \/ RunTick
    \/ RunReturn
    \/ MainTick
    \/ MainExit
    \/ SwarmTick
    \/ SwarmStepEnd
    \/ SwarmExit
    \/ \E i \in Drones : DroneStepRebuild(i)
    \/ \E i \in Drones : DroneStepSwarm(i)
    \/ \E j \in Targets : TargetStep(j)
    \/ EndTick

Spec == Init /\ [][Next]_vars

(***************************************************************************)
(* Properties.                                                             *)
(***************************************************************************)
\* C1: a drone that has reached get_hit is retreating for as long as it is in
\* the simulation, and no drone reaches get_hit twice
C1_FiredStaysRetreating ==
    \A i \in Drones :
        /\ drone[i].shots <= 1
        /\ (drone[i].shots = 1 /\ drone[i].scheduled) => drone[i].state = "retreating"

\* a drone that fired earlier has just been activated again, with a living
\* target still in sight and in weapon range, and did not shoot
C1_Witness ==
    \E i \in Drones, j \in Targets :
        /\ last.agent = DroneAgent(i)
        /\ last.shot = 0
        /\ drone[i].shots = 1
        /\ drone[i].scheduled
        /\ target[j].state # "dead"
        /\ Within(drone[i].pos, TargetPos(j), cfg.drone_vis_radius)
        /\ Dist2(drone[i].pos, TargetPos(j)) <= cfg.drone_weapon_radius * cfg.drone_weapon_radius

\* the activation of target j: the step from a state where the scheduler has
\* yet to activate it to the state it leaves
TargetActivated(j) ==
    /\ pc = "tick"
    /\ TargetAgent(j) \in todo
    /\ last'.agent = TargetAgent(j)

\* the activation of drone i
DroneActivated(i) ==
    /\ pc = "tick"
    /\ DroneAgent(i) \in todo
    /\ last'.agent = DroneAgent(i)

\* the drones a step takes out of the simulation
Removed == {i \in Drones : drone[i].scheduled /\ ~drone'[i].scheduled}

\* C2: a target's activation removes a drone only if time_until_fire <= 0, the
\* nearest visible drone is within weapon_range and the bearing to it is within
\* the weapon's angular reach of the direction; when one of the three fails, no
\* drone is removed and time_until_fire is not reset
C2_KillNeedsAllThree ==
    [][\A j \in Targets :
         TargetActivated(j) =>
           LET k == get_nearest_drone(drone, j)
               ready == target[j].time_until_fire <= 0
               inRange == /\ k # 0
                          /\ Dist2(TargetPos(j), drone[k].pos)
                               <= cfg.target_weapon_range * cfg.target_weapon_range
               aimed == /\ k # 0
                        /\ 1000 * Abs(Bearing(drone, j, k) - target'[j].direction)
                             <= HalfAngularRange
           IN /\ Removed # {} => (ready /\ inRange /\ aimed /\ Removed = {k})
              /\ ~(ready /\ inRange /\ aimed) =>
                   /\ Removed = {}
                   /\ target'[j].time_until_fire =
                        IF target[j].time_until_fire > 0
                        THEN target[j].time_until_fire - dt
                        ELSE target[j].time_until_fire]_vars

\* a target has just removed a drone: its cooldown restarted, the drone within
\* weapon range and on the line of the weapon
C2_Witness ==
    \E j \in Targets, k \in Drones :
        /\ last.agent = TargetAgent(j)
        /\ last.killed = k
        /\ ~drone[k].scheduled
        /\ target[j].time_until_fire = cfg.fire_cooldown
        /\ Dist2(TargetPos(j), drone[k].pos) <= cfg.target_weapon_range * cfg.target_weapon_range
        /\ 1000 * Abs(Bearing(drone, j, k) - target[j].direction) <= HalfAngularRange

\* C3: a dead target's activation leaves its direction alone and removes no drone
C3_DeadTargetInert ==
    [][\A j \in Targets :
         (TargetActivated(j) /\ target[j].state = "dead") =>
           /\ target'[j].direction = target[j].direction
           /\ Removed = {}]_vars

\* a tick begins: the loop calls schedule.step()
TickBegins == pc = "loop" /\ pc' = "tick"

DronesInSimulation == {i \in Drones : drone[i].scheduled}

ArmedDrones == {i \in DronesInSimulation : drone[i].state = "flocking"}

AliveTargets == {j \in Targets : target[j].state # "dead"}

\* C4 as stated: a tick begins only with a drone in the simulation, a living
\* target and an armed drone
C4_TickNeedsAllThree ==
    [][TickBegins =>
         /\ DronesInSimulation # {}
         /\ AliveTargets # {}
         /\ ArmedDrones # {}]_vars

\* C4, the part both variants keep: a tick begins only with a drone in the
\* simulation and a living target, and in the rebuild only with an armed drone
\* too; a loop that has been left runs no further tick
C4_TickNeedsDronesAndTargets ==
    [][/\ TickBegins =>
            /\ DronesInSimulation # {}
            /\ AliveTargets # {}
            /\ Rebuild => ArmedDrones # {}
       /\ pc = "done" => pc' = "done"]_vars

\* C5: the loop stops after at most the maximum number of ticks
C5_TicksBounded == model.time <= MAX_TICKS

\* C6: the reported utility is dead targets * target_value - removed drones *
\* drone_cost (drone_swarm reports the same quantity as a cost, of opposite sign)
C6_ReportedUtility ==
    model.reports > 0 =>
      (IF Rebuild THEN model.utility ELSE -model.cost)
        = Cardinality(Targets \ AliveTargets) * TARGET_VALUE
          - Cardinality(Drones \ DronesInSimulation) * DRONE_VALUE

\* np.linalg.norm(v) <= m; false of a nan
NormLE(v, m) == ~HasNaN(v) /\ Norm2(v) <= m * m

\* C7: at every tick boundary every drone in the simulation has
\* |velocity| <= max_velocity and |acceleration| <= max_acceleration
C7_Clamped ==
    pc = "loop" =>
      \A i \in DronesInSimulation :
          /\ NormLE(drone[i].velocity, cfg.max_velocity)
          /\ NormLE(drone[i].acceleration, cfg.max_acceleration)

\* C8: the activation of a living target with no drone in its visibility
\* radius leaves its direction alone, removes no drone, and takes dt off a
\* positive time_until_fire or leaves it unchanged
C8_NothingInSight ==
    [][\A j \in Targets :
         (/\ TargetActivated(j)
          /\ target[j].state # "dead"
          /\ NeighborDrones(drone, TargetPos(j), cfg.target_vis_radius) = {}) =>
           /\ target'[j].direction = target[j].direction
           /\ Removed = {}
           /\ target'[j].time_until_fire =
                IF target[j].time_until_fire > 0
                THEN target[j].time_until_fire - dt
                ELSE target[j].time_until_fire]_vars

\* a living target has just been activated with drones in the simulation, none
\* of them in its visibility radius, its weapon ready
C8_Witness ==
    \E j \in Targets :
        /\ last.agent = TargetAgent(j)
        /\ last.killed = 0
        /\ target[j].state # "dead"
        /\ target[j].time_until_fire <= 0
        /\ DronesInSimulation # {}
        /\ NeighborDrones(drone, TargetPos(j), cfg.target_vis_radius) = {}

\* C9: a target's activation removes at most one drone; a kill leaves
\* time_until_fire = fire_cooldown; a target with time_until_fire > 0 kills
\* nothing and takes dt off; a kill comes at least fire_cooldown / dt
\* activations after the construction or the previous kill
C9_OneKillPerCooldown ==
    [][\A j \in Targets :
         TargetActivated(j) =>
           /\ Cardinality(Removed) <= 1
           /\ Removed # {} =>
                /\ target[j].time_until_fire <= 0
                /\ target'[j].time_until_fire = cfg.fire_cooldown
                /\ target[j].idle * dt >= cfg.fire_cooldown
           /\ target[j].time_until_fire > 0 =>
                /\ Removed = {}
                /\ target'[j].time_until_fire = target[j].time_until_fire - dt]_vars

\* a target with a cooldown has just made its second kill
C9_Witness ==
    \E j \in Targets :
        /\ last.agent = TargetAgent(j)
        /\ last.killed # 0
        /\ target[j].kills = 2
        /\ cfg.fire_cooldown > 0
        /\ target[j].time_until_fire = cfg.fire_cooldown

\* the living targets within weapon range of the position p (none of a nan)
InWeaponRange(p) ==
    {j \in AliveTargets :
        /\ ~HasNaN(p)
        /\ Dist2(p, TargetPos(j)) <= cfg.drone_weapon_radius * cfg.drone_weapon_radius}

\* the living targets the domain reports within the visibility radius of p
InSight(p) == {j \in AliveTargets : Within(p, TargetPos(j), cfg.drone_vis_radius)}

\* drone i of the rebuild made its fire attempt in this step, at a nearest
\* target of S: get_hit on it, a hit exactly when the draw is within the
\* accuracy's reach, the drone retreating
FiredAtNearest(i, S) ==
    /\ last'.shot \in S
    /\ \A m \in S : Dist2(drone'[i].pos, TargetPos(last'.shot))
                       <= Dist2(drone'[i].pos, TargetPos(m))
    /\ drone'[i].shots = drone[i].shots + 1
    /\ drone'[i].state = "retreating"
    /\ (last'.hit <=> target'[last'.shot].state = "dead")
    /\ (cfg.accuracy = ProbDen => last'.hit)

\* C10 as stated: a flocking drone of the rebuild whose step ends with a living
\* target within weapon range has fired at the nearest such target
C10_FiresInRange ==
    [][\A i \in Drones :
         (/\ Rebuild
          /\ DroneActivated(i)
          /\ drone[i].state = "flocking"
          /\ InWeaponRange(drone'[i].pos) # {}) =>
           FiredAtNearest(i, InWeaponRange(drone'[i].pos))]_vars

\* C10, amended: a flocking drone of the rebuild whose step ends with a living
\* target in sight and the nearest living target in sight within weapon range
\* has fired at it
C10_FiresInSightInRange ==
    [][\A i \in Drones :
         (/\ Rebuild
          /\ DroneActivated(i)
          /\ drone[i].state = "flocking"
          /\ InSight(drone'[i].pos) \cap InWeaponRange(drone'[i].pos) # {}) =>
           FiredAtNearest(i, InSight(drone'[i].pos))]_vars

\* a flocking drone of the rebuild has just fired at a target in sight and in
\* weapon range
C10_Witness ==
    \E i \in Drones :
        /\ Rebuild
        /\ last.agent = DroneAgent(i)
        /\ last.shot # 0
        /\ drone[i].shots = 1
        /\ drone[i].state = "retreating"
        /\ Within(drone[i].pos, TargetPos(last.shot), cfg.drone_vis_radius)
        /\ Dist2(drone[i].pos, TargetPos(last.shot))
             <= cfg.drone_weapon_radius * cfg.drone_weapon_radius

\* C11: a drone never fires at a target that is already dead, so get_hit
\* is never invoked on a dead target: whenever the activation of a drone
\* fires a shot, the target it fires at was not dead before the activation
C11_NoShotAtDeadTarget ==
    [][\A i \in Drones :
         (DroneActivated(i) /\ last'.shot # 0)
            => target[last'.shot].state # "dead"]_vars

\* the steering weights a drone is constructed with
InitialWeights == InitWeights(cfg)

\* the edge-avoidance and target-seeking weights of drone i are the negations
\* of their initial values
Flipped(i) ==
    /\ drone[i].weights[4] = -InitialWeights[4]
    /\ drone[i].weights[5] = -InitialWeights[5]

\* C12: a drone is retreating if and only if its edge-avoidance and
\* target-seeking weights are the negations of their initial values, and its
\* alignment, cohesion and separation weights are the initial ones in every
\* state
C12_RetreatingIffFlipped ==
    \A i \in Drones :
        /\ (drone[i].state = "retreating") <=> Flipped(i)
        /\ \A k \in 1..3 : drone[i].weights[k] = InitialWeights[k]

\* the position drone i would move to in its next activation,
\* pos + velocity * dt, is outside the domain rectangle
NextOutside(i) ==
    /\ ~HasNaN(drone[i].pos)
    /\ ~HasNaN(drone[i].velocity)
    /\ LET next == vAdd(drone[i].pos, vScale(dt, drone[i].velocity))
       IN \/ next[1] < 0
          \/ next[1] > cfg.width
          \/ next[2] < 0
          \/ next[2] > cfg.height

\* C13: the activation of a drone whose next position is outside the domain
\* rectangle leaves its position, acceleration and velocity unchanged, fires
\* no shot, removes the drone from the schedule and increases the returned
\* counter by exactly 1
C13_LeavesWhenNextOutside ==
    [][\A i \in Drones :
         (DroneActivated(i) /\ NextOutside(i))
            => /\ drone'[i].pos = drone[i].pos
               /\ drone'[i].acceleration = drone[i].acceleration
               /\ drone'[i].velocity = drone[i].velocity
               /\ last'.shot = 0
               /\ ~drone'[i].scheduled
               /\ model'.n_drones_returned = model.n_drones_returned + 1]_vars

\* C14: the activation of a living target whose nearest visible drone is at
\* bearing b, with delta = b - direction, sets the direction to b when
\* |delta| <= omega_max * dt and to direction + sign(delta) * omega_max * dt
\* otherwise
C14_TurnsAtMostOmega ==
    [][\A j \in AliveTargets :
         LET k == get_nearest_drone(drone, j)
         IN (TargetActivated(j) /\ k # 0 /\ ~HasNaN(drone[k].pos))
               => LET b == Bearing(drone, j, k)
                      delta == b - target[j].direction
                  IN target'[j].direction =
                        IF Abs(delta) <= cfg.omega_max * dt
                        THEN b
                        ELSE target[j].direction
                                + Sign(delta) * cfg.omega_max * dt]_vars

\* C15: with drone accuracy 0 no target is ever dead, whatever the draws
C15_ZeroAccuracyNeverKills ==
    cfg.accuracy = 0 => \A j \in Targets : target[j].state # "dead"

\* C16: with drone accuracy 1 every shot a drone fires at a living target
\* leaves that target dead, whatever the distance and the draw
C16_FullAccuracyAlwaysKills ==
    [][\A i \in Drones :
         (/\ cfg.accuracy = ProbDen
          /\ DroneActivated(i)
          /\ last'.shot # 0
          /\ last'.shot \in AliveTargets)
            => target'[last'.shot].state = "dead"]_vars

\* one drone, one target, a weapon that covers the full circle, and a target
\* that sees as far as it shoots
OneOnOne ==
    /\ cfg.num_drones = 1
    /\ cfg.num_targets = 1
    /\ cfg.weapon_angular_range = 360
    /\ cfg.target_vis_radius >= cfg.target_weapon_range

\* drone i is at a distance from target j that both weapon ranges cover
InBothRanges(i, j) ==
    /\ ~HasNaN(drone[i].pos)
    /\ Dist2(TargetPos(j), drone[i].pos) > 0
    /\ Dist2(TargetPos(j), drone[i].pos)
          <= cfg.target_weapon_range * cfg.target_weapon_range
    /\ Dist2(TargetPos(j), drone[i].pos)
          <= cfg.drone_weapon_radius * cfg.drone_weapon_radius

\* drone i is in the simulation and within both weapon ranges of target j
Engaged(i, j) == drone[i].scheduled /\ InBothRanges(i, j)

ZeroVisibility == cfg.drone_vis_radius = 0 /\ cfg.target_vis_radius = 0

\* C18: with every visibility radius 0, the activation of a drone that stays
\* in the domain computes the zero acceleration, keeps the drone's velocity
\* and fires no shot, and the activation of a target neither turns nor fires
C18_BlindAgentsDoNothing ==
    [][ZeroVisibility =>
         /\ \A i \in Drones :
              (DroneActivated(i) /\ ~last'.returned)
                 => /\ drone'[i].acceleration = Zero2
                    /\ drone'[i].velocity = drone[i].velocity
                    /\ last'.shot = 0
         /\ \A j \in Targets :
              TargetActivated(j)
                 => /\ last'.killed = 0
                    /\ target'[j].direction = target[j].direction]_vars

\* no agent has been created, registered with the scheduler or placed
NoAgentCreated ==
    /\ \A i \in Drones : ~drone[i].scheduled
    /\ model.current_id = 0
    /\ todo = {}

\* C19: a model whose domain is too small for its drones is never
\* constructed: no state of a run has such a configuration with an agent
\* created
C19_SmallDomainRejected == DomainTooSmall(cfg) => NoAgentCreated

\* C20: the direction of every target lies in [0, 2 pi), the range it is
\* drawn from at construction, in every state
C20_DirectionWrapped ==
    \A j \in Targets : 0 <= target[j].direction /\ target[j].direction < 360

\* C21: in the rebuild, between any two agent steps the three counters of the
\* model equal the number of drones in the schedule, of flocking drones in
\* the schedule and of living targets
C21_CountersMatch ==
    Rebuild =>
        /\ model.current_num_drones = Cardinality(DronesInSimulation)
        /\ model.current_num_armed_drones = Cardinality(ArmedDrones)
        /\ model.current_num_targets = Cardinality(AliveTargets)
        /\ model.current_num_armed_drones <= model.current_num_drones
        /\ model.current_num_drones <= cfg.num_drones

\* a retreating drone has been killed and a target destroyed: every counter
\* has been decremented, the armed one by fire alone
C21_Witness ==
    /\ Rebuild
    /\ last.killed # 0
    /\ drone[last.killed].state = "retreating"
    /\ model.current_num_targets < cfg.num_targets
    /\ model.current_num_drones < cfg.num_drones

\* C22: no steering computation yields a non-finite value: the acceleration,
\* the velocity and the position of every drone are finite in every state
C22_SteeringFinite ==
    \A i \in Drones :
        /\ ~HasNaN(drone[i].acceleration)
        /\ ~HasNaN(drone[i].velocity)
        /\ ~HasNaN(drone[i].pos)

\* the distance d of a drone to a boundary is smaller than the visibility
\* radius and than 7.5 % of the extent of the domain along the same axis
NearEdge(d, extent) == d < cfg.drone_vis_radius /\ 40 * d < 3 * extent

\* the boundaries that are active for drone i, as the distances to them say
ActiveEdges(i) ==
    LET x == drone[i].pos[1]
        y == drone[i].pos[2]
    IN {e \in {"left", "right", "bottom", "top"} :
          \/ e = "left" /\ NearEdge(x, cfg.width)
          \/ e = "right" /\ NearEdge(cfg.width - x, cfg.width)
          \/ e = "bottom" /\ NearEdge(y, cfg.height)
          \/ e = "top" /\ NearEdge(cfg.height - y, cfg.height)}

\* C23: for every drone in the domain, avoid_edges contributes zero when no
\* boundary is active, and when the top boundary alone is active it
\* contributes the downward velocity of magnitude max_velocity minus the
\* drone's velocity
C23_EdgesByDistance ==
    \A i \in DronesInSimulation :
        (~HasNaN(drone[i].pos) /\ ~HasNaN(drone[i].velocity))
           => /\ ActiveEdges(i) = {} => avoid_edges(drone, i) = Zero2
              /\ ActiveEdges(i) = {"top"}
                    => avoid_edges(drone, i)
                          = vSub(<<0, -cfg.max_velocity>>, drone[i].velocity)

\* the drones drone i sees
Flockmates(i) == NeighborDrones(drone, drone[i].pos, cfg.drone_vis_radius)

\* the vector to the flockmates' centroid rescaled to max_velocity, minus the
\* drone's velocity
CohesionToCentroid(i) ==
    LET N == Flockmates(i)
        comDir == vSub(SumVec(N, [k \in N |-> drone[k].pos]),
                       vScale(Cardinality(N), drone[i].pos))
    IN vSub(IF Norm2(comDir) > 0 THEN Rescale(comDir, cfg.max_velocity) ELSE Zero2,
            drone[i].velocity)

\* the average unit vector away from the flockmates rescaled to max_velocity,
\* minus the drone's velocity
SeparationFromFlock(i) ==
    LET N == Flockmates(i)
        away == SumVec(N, [k \in N |-> Rescale(vSub(drone[i].pos, drone[k].pos),
                                               UnitScale)])
    IN vSub(IF Norm2(away) > 0 THEN Rescale(away, cfg.max_velocity) ELSE Zero2,
            drone[i].velocity)

\* every drone of the domain has a finite position and velocity
AllFinite ==
    \A k \in DronesInSimulation : ~HasNaN(drone[k].pos) /\ ~HasNaN(drone[k].velocity)

\* C24: a drone with at least one drone in sight gets the cohesion and the
\* separation contribution of its flockmates, whatever their velocities sum to
C24_CohesionWithoutAlignment ==
    AllFinite =>
        \A i \in DronesInSimulation :
            Flockmates(i) # {}
               => /\ boids(drone, i)[2] = CohesionToCentroid(i)
                  /\ boids(drone, i)[3] = SeparationFromFlock(i)

\* C25: once the run of drone_swarm has ended, the number of targets that
\* get_num_targets reports is the number of targets that are not dead
C25_TargetsLeftAreAlive ==
    (Swarm /\ ~model.running) => get_num_targets = Cardinality(AliveTargets)

\* C26: in drone_swarm running is never set back to true, the summary of
\* end() is produced once at most, and once a call of step has returned
\* with running false no agent and no counter changes any more
C26_FrozenAfterEnd ==
    [][Swarm =>
         /\ ~model.running => ~model'.running
         /\ model'.reports <= 1
         /\ (~model.running /\ pc = "loop")
               => /\ drone' = drone
                  /\ target' = target
                  /\ model' = model]_vars

\* C27: a drone that the boundary-exit path removes and counts as returned
\* was retreating, i.e. had fired, before that activation
C27_ReturnedHadFired ==
    [][\A i \in Drones :
         (DroneActivated(i) /\ last'.returned)
            => drone[i].state = "retreating" /\ drone[i].shots > 0]_vars

\* C28: the drone a target kills was in the schedule and leaves it and the
\* rest of the tick's order; a drone out of the schedule is never activated,
\* never changes and is never killed again
C28_KilledDroneInert ==
    [][/\ last'.killed # 0
          => /\ drone[last'.killed].scheduled
             /\ ~drone'[last'.killed].scheduled
             /\ DroneAgent(last'.killed) \notin todo'
       /\ \A i \in Drones :
            ~drone[i].scheduled
               => /\ drone'[i] = drone[i]
                  /\ last'.agent # DroneAgent(i)
                  /\ last'.killed # i]_vars

\* a drone was killed before its turn in an earlier tick, and another agent
\* has just acted
C28_Witness ==
    /\ pc = "tick"
    /\ last.agent # <<"none", 0>>
    /\ last.killed = 0
    /\ \E i \in Drones :
         /\ ~drone[i].scheduled
         /\ drone[i].state # "returned"
         /\ drone[i].pos \in InitPositions(cfg, i)
         /\ model.time > cfg.fire_cooldown

\* the drones that left through the boundary, and those a target killed
ReturnedDrones == {i \in Drones : drone[i].state = "returned"}

KilledDrones == {i \in Drones : ~drone[i].scheduled /\ drone[i].state # "returned"}

\* C29: in drone_swarm the drones created at the start are those of the
\* schedule, the n_drones_returned returned ones and the ones the target
\* killed, and the drones lost of get_cost are the returned plus the killed
C29_DronesPartition ==
    Swarm =>
        /\ model.n_drones_returned = Cardinality(ReturnedDrones)
        /\ target[1].kills = Cardinality(KilledDrones)
        /\ cfg.num_drones = get_num_drones(drone) + model.n_drones_returned
                               + target[1].kills
        /\ cfg.num_drones - get_num_drones(drone)
              = Cardinality(ReturnedDrones) + Cardinality(KilledDrones)

\* at a tick boundary of drone_swarm one drone has returned and another has
\* been killed
C29_Witness ==
    /\ Swarm
    /\ pc = "loop"
    /\ ReturnedDrones # {}
    /\ KilledDrones # {}

\* the sum the weighted steering vector is divided by in update_acceleration
WeightSum(i) ==
    drone[i].weights[1] + drone[i].weights[2] + drone[i].weights[3]
       + drone[i].weights[4] + drone[i].weights[5]

\* C30: the sum of the five steering weights of every drone is strictly
\* positive in every state, before and after the sign flip of the retreat
C30_WeightSumPositive ==
    \A i \in Drones :
        /\ WeightSum(i) > 0
        /\ Flipped(i)
              => WeightSum(i) = InitialWeights[1] + InitialWeights[2]
                                   + InitialWeights[3] - InitialWeights[4]
                                   - InitialWeights[5]

\* a drone of drone_swarm has fired, its two weights are flipped, and it has
\* computed an acceleration with them since
C30_Witness ==
    \E i \in DronesInSimulation :
        /\ Flipped(i)
        /\ drone[i].state = "retreating"
        /\ WeightSum(i) < InitialWeights[1] + InitialWeights[2] + InitialWeights[3]
        /\ pc = "tick"
        /\ last.agent = DroneAgent(i)
        /\ last.shot = 0

====
